---- MODULE Spec2Model ----
(***************************************************************************)
(* Model of gltfoptimizer: optimizeModel (src/lib/optimize.js) driven by   *)
(* the batch loop of the CLI's main.  The state is the asset's directory   *)
(* (a partial function from the paths optimizeModel derives to file        *)
(* contents), the position inside optimizeModel, the values it computes    *)
(* for its report, and the counters of the batch loop.                     *)
(*                                                                         *)
(* Every external process call (execSync) and every fs call that the       *)
(* pipeline relies on (unlinkSync / renameSync / copyFileSync outside the  *)
(* catch blocks) is one step that either succeeds or throws.  The cleanup  *)
(* unlinks inside the catch blocks are taken to succeed.                   *)
(***************************************************************************)
EXTENDS Integers, Sequences, FiniteSets, TLC

\* Number of successive invocations of optimizeModel on the asset.
MaxRuns == 2

\* Bytes per megabyte, the divisor of getGltfModelSize.
MB == 1048576

VARIABLES
  fs,            \* directory: path -> file content, DOMAIN fs = existing files
  ext,           \* path.extname(inputPath)
  pc,            \* position inside optimizeModel / the batch loop
  opts,          \* options of the current invocation
  originalSize,  \* const originalSize (hundredths of MB)
  optimizedSize, \* const optimizedSize (hundredths of MB)
  reduction,     \* const reduction (tenths of a percent)
  applied,       \* entries logged under "Optimisations appliquees"
  failedAt,      \* the step whose exception the enclosing catch is handling
  runs,          \* invocations started so far
  successCount,  \* main: successCount
  errorCount,    \* main: errorCount
  h              \* history of the current invocation (observation only)

vars == <<fs, ext, pc, opts, originalSize, optimizedSize, reduction, applied,
          failedAt, runs, successCount, errorCount, h>>

----------------------------------------------------------------------------
\* Paths derived from inputPath (one asset, one directory).

inputPath == "asset"

outputPath == "asset-optimized"

backupPath == "asset-original"

tempPath == "asset-optimized-temp"

tempPath2 == "asset-optimized-temp2"

currentPath == outputPath

namedBinPath == "asset.bin"

binPath == "scene.bin"

binBackupPath == "scene-original.bin"

TempPaths == {outputPath, tempPath, tempPath2}

Paths == {inputPath, outputPath, backupPath, tempPath, tempPath2,
          namedBinPath, binPath, binBackupPath}

----------------------------------------------------------------------------
\* File contents.  Two files are byte-identical iff their contents are equal:
\* a content names the invocation and the stage that wrote it, so the output
\* of every stage of every invocation differs from every other file.

Stages == {"orig", "bin", "optimize", "resize", "webp", "partial"}

Content(run, stage, size, ok) ==
  [run |-> run, stage |-> stage, size |-> size, ok |-> ok]

\* Sizes a transform may give its output, from the size of its input.
OutSizes(s) == {s, s \div 2}

----------------------------------------------------------------------------
\* fs primitives on a directory f.

existsSync(f, p) == p \in DOMAIN f

WriteFile(f, p, c) == [q \in (DOMAIN f) \cup {p} |-> IF q = p THEN c ELSE f[q]]

unlinkSync(f, p) == [q \in (DOMAIN f) \ {p} |-> f[q]]

renameSync(f, src, dst) == unlinkSync(WriteFile(f, dst, f[src]), src)

copyFileSync(f, src, dst) == WriteFile(f, dst, f[src])

statSize(f, p) == f[p].size

----------------------------------------------------------------------------
\* toFixed: round a / b (b > 0) to the nearest integer, halves away from zero.
RoundDiv(a, b) ==
  IF a >= 0 THEN (2 * a + b) \div (2 * b) ELSE -((2 * (-a) + b) \div (2 * b))

\* Size of the first existing candidate .bin file, 0 if none.
FirstBinSize(f) ==
  IF existsSync(f, namedBinPath) THEN statSize(f, namedBinPath)
  ELSE IF existsSync(f, binPath) THEN statSize(f, binPath)
  ELSE 0

\* Bytes getGltfModelSize adds up when the main file is at path p.
TotalSize(f, p) ==
  (IF existsSync(f, p) THEN statSize(f, p) ELSE 0)
  + (IF ext = ".gltf" THEN FirstBinSize(f) ELSE 0)

\* getGltfModelSize: (totalSize / MB).toFixed(2), held in hundredths of MB.
getGltfModelSize(f, p) == RoundDiv(TotalSize(f, p) * 100, MB)

\* ((1 - optimizedSize / originalSize) * 100).toFixed(1), in tenths of a
\* percent; a zero originalSize gives NaN or an infinity in the source.
Reduction(orig, opt) ==
  IF orig = 0 THEN [nan |-> TRUE, tenths |-> 0]
  ELSE [nan |-> FALSE, tenths |-> RoundDiv((orig - opt) * 1000, orig)]

----------------------------------------------------------------------------
\* validateGltfModel: the file must exist, be non-empty and, for .gltf and
\* .glb, pass the structural checks (ok).
validateGltfModel(f, p) ==
  IF ~existsSync(f, p) THEN [valid |-> FALSE, error |-> "introuvable"]
  ELSE IF statSize(f, p) = 0 THEN [valid |-> FALSE, error |-> "vide"]
  ELSE IF ~f[p].ok THEN [valid |-> FALSE, error |-> "structure"]
  ELSE [valid |-> TRUE, error |-> "none"]

----------------------------------------------------------------------------
\* The external transform (gltf-transform via execSync).  It reads its input
\* and writes only its output path: a fully formed file on success, nothing
\* or a partial file on failure.  It cannot succeed without its input.

\* Mutation: the transform also rewrites the file it was given as input.
ExecOkRewritesInput(f, stage, src, dst, size) ==
  WriteFile(WriteFile(f, dst, Content(runs, stage, size, TRUE)),
            src, Content(runs, stage, size, TRUE))

ExecOk(f, stage, src, dst, size) == WriteFile(f, dst, Content(runs, stage, size, TRUE))

ExecPartial(f, dst) == WriteFile(f, dst, Content(runs, "partial", 1, FALSE))

\* Directories a failing transform may leave behind.
ExecFailures(f, dst) == {f, ExecPartial(f, dst)}

----------------------------------------------------------------------------
\* Decisions and fs effects of optimizeModel, one operator per statement.

\* Mutation: the return after a failed validation is missing.
AfterValidationNoReturn(v) == "mandatory"

\* if (!validation.valid) return;  -- where control goes after validation
AfterValidation(v) == IF v.valid THEN "mandatory" ELSE "returned"

\* Mutation: the resize stage is entered whatever resizeTextures is.
AfterMandatoryAlwaysResize(o) == "resize"

\* if (resizeTextures) { ... }  -- where control goes after the mandatory stage
AfterMandatory(o) == IF o.resizeTextures THEN "resize" ELSE "webp"

\* fs.unlinkSync(currentPath) of a stage that produced its output
DropWorkingCopy(f) == unlinkSync(f, currentPath)

\* fs.renameSync(tempPath, currentPath)
PromoteResize(f) == renameSync(f, tempPath, currentPath)

\* fs.renameSync(tempPath2, currentPath)
PromoteWebp(f) == renameSync(f, tempPath2, currentPath)

\* catch of the resize stage: remove tempPath if it exists
ResizeCleanup(f) == IF existsSync(f, tempPath) THEN unlinkSync(f, tempPath) ELSE f

\* Mutation: the catch of the re-encode stage removes nothing.
WebpCleanupSkipped(f) == f

\* catch of the re-encode stage: remove tempPath2 if it exists
WebpCleanup(f) == IF existsSync(f, tempPath2) THEN unlinkSync(f, tempPath2) ELSE f

\* const optimizedSize = getGltfModelSize(inputPath)
MeasureOptimized(f) == getGltfModelSize(f, inputPath)

\* the "Optimisations appliquees" lines of the report
AppliedLines(o) ==
  (IF o.compressDraco THEN {"draco"} ELSE {})
  \cup (IF o.resizeTextures THEN {"resize"} ELSE {})
  \cup {"webp", "optimize"}

\* Mutation: the backup is taken without looking for an existing one.
NeedsBackupUnconditional(f, o) == o.backupOriginal

\* if (backupOriginal && !fs.existsSync(backupPath))
NeedsBackup(f, o) == o.backupOriginal /\ ~existsSync(f, backupPath)

\* Mutation: the backup is a copy of the working copy.
BackupCopyOfWorkingCopy(f) ==
  IF existsSync(f, currentPath) THEN copyFileSync(f, currentPath, backupPath) ELSE f

\* fs.copyFileSync(inputPath, backupPath)
BackupCopy(f) == copyFileSync(f, inputPath, backupPath)

\* fs.unlinkSync(inputPath)
DeleteOriginal(f) == unlinkSync(f, inputPath)

\* Mutation: the working copy is renamed onto the backup path.
FinalRenameOntoBackup(f) == renameSync(f, currentPath, backupPath)

\* fs.renameSync(currentPath, inputPath)
FinalRename(f) == renameSync(f, currentPath, inputPath)

\* Mutation: the sibling buffer is copied without looking for its backup.
NeedsBinBackupUnconditional(f, o) ==
  /\ ext = ".gltf"
  /\ existsSync(f, binPath)
  /\ o.backupOriginal

\* the sibling buffer is copied only for .gltf, when scene.bin exists, a
\* backup is requested and scene-original.bin does not exist
NeedsBinBackup(f, o) ==
  /\ ext = ".gltf"
  /\ existsSync(f, binPath)
  /\ o.backupOriginal
  /\ ~existsSync(f, binBackupPath)

\* fs.copyFileSync(binPath, binBackupPath)
BinBackupCopy(f) == copyFileSync(f, binPath, binBackupPath)

\* Mutation: the outer catch removes nothing.
CatchCleanupSkipped(f) == f

\* outer catch: remove outputPath if it exists
CatchCleanup(f) == IF existsSync(f, outputPath) THEN unlinkSync(f, outputPath) ELSE f

----------------------------------------------------------------------------
\* Initial directories: the asset, valid or not, and for a .gltf asset its
\* possible sibling buffers.  Nothing else is in the directory.

OrigContents ==
  { Content(0, "orig", 2 * MB, TRUE),     \* a well-formed asset
    Content(0, "orig", 2 * MB, FALSE),    \* fails a structural check
    Content(0, "orig", 0, FALSE) }        \* empty file

BinContent == Content(0, "bin", MB, TRUE)

InitDirs(e) ==
  { [p \in {inputPath} \cup bins |-> IF p = inputPath THEN c ELSE BinContent] :
      c \in OrigContents,
      bins \in IF e = ".gltf" THEN SUBSET {namedBinPath, binPath} ELSE {{}} }

NoOpts == [compressDraco |-> FALSE, resizeTextures |-> FALSE, backupOriginal |-> FALSE]

Options == [compressDraco : BOOLEAN, resizeTextures : BOOLEAN, backupOriginal : BOOLEAN]

NoReduction == [nan |-> FALSE, tenths |-> 0]

\* History of one invocation: what the directory and the asset were when it
\* started, what each transform produced, and how far it got.
NoHistory ==
  [ fs0       |-> <<>>,      \* directory when the invocation started
    validated |-> FALSE,     \* the pre-flight validation has run
    valid     |-> FALSE,     \* ... and accepted the asset
    calls     |-> <<>>,      \* transforms invoked, in order
    mOut      |-> {},        \* output of the mandatory stage, if it succeeded
    rOut      |-> {},        \* output of the resize transform, if it succeeded
    wOut      |-> {},        \* output of the re-encode transform, if it succeeded
    wIn       |-> {},        \* the file the re-encode transform was run on
    partials  |-> {},        \* paths where a failing transform left a partial file
    rApplied  |-> FALSE,     \* resize output became the working copy
    wApplied  |-> FALSE,     \* re-encode output became the working copy
    last      |-> {},        \* output of the last stage that succeeded
    final     |-> {},        \* working copy when the commit started
    steps     |-> {},        \* commit steps that ran
    committed |-> FALSE,     \* the final rename succeeded
    exit      |-> "running" ]

Init ==
  /\ ext \in {".glb", ".gltf"}
  /\ fs \in InitDirs(ext)
  /\ pc = "idle"
  /\ opts = NoOpts
  /\ originalSize = 0
  /\ optimizedSize = 0
  /\ reduction = NoReduction
  /\ applied = {}
  /\ failedAt = "none"
  /\ runs = 0
  /\ successCount = 0
  /\ errorCount = 0
  /\ h = NoHistory

report == <<originalSize, optimizedSize, reduction, applied>>

loop == <<runs, successCount, errorCount>>

----------------------------------------------------------------------------
\* main's loop body calls optimizeModel(file, options).
Invoke ==
  /\ pc = "idle"
  /\ runs < MaxRuns
  /\ \E o \in Options : opts' = o
  /\ runs' = runs + 1
  /\ pc' = "validate"
  /\ h' = [NoHistory EXCEPT !.fs0 = fs]
  /\ UNCHANGED <<fs, ext, report, failedAt, successCount, errorCount>>

\* validateGltfModel(inputPath); return if invalid; originalSize.
Validate ==
  /\ pc = "validate"
  /\ LET v == validateGltfModel(fs, inputPath) IN
       /\ pc' = AfterValidation(v)
       /\ h' = [h EXCEPT !.validated = TRUE, !.valid = v.valid,
                         !.exit = IF AfterValidation(v) = "returned"
                                  THEN "invalid" ELSE "running"]
       /\ originalSize' = IF AfterValidation(v) = "returned" THEN originalSize
                          ELSE getGltfModelSize(fs, inputPath)
  /\ UNCHANGED <<fs, ext, opts, optimizedSize, reduction, applied, failedAt, loop>>

\* Step 1: execSync(gltf-transform optimize inputPath outputPath).
ExecMandatory ==
  /\ pc = "mandatory"
  /\ \/ /\ existsSync(fs, inputPath)
        /\ \E s \in OutSizes(statSize(fs, inputPath)) :
             /\ fs' = ExecOk(fs, "optimize", inputPath, outputPath, s)
             /\ h' = [h EXCEPT !.calls = Append(@, "optimize"),
                               !.mOut = {fs'[outputPath]},
                               !.last = {fs'[outputPath]}]
        /\ pc' = AfterMandatory(opts)
        /\ UNCHANGED failedAt
     \/ /\ fs' \in ExecFailures(fs, outputPath)
        /\ h' = [h EXCEPT !.partials = IF fs' = fs THEN @ ELSE @ \cup {outputPath},
                          !.calls = Append(@, "optimize")]
        /\ pc' = "catch"
        /\ failedAt' = "mandatory"
  /\ UNCHANGED <<ext, opts, report, loop>>

\* Step 2: execSync(gltf-transform resize currentPath tempPath).
ExecResize ==
  /\ pc = "resize"
  /\ \/ /\ existsSync(fs, currentPath)
        /\ \E s \in OutSizes(statSize(fs, currentPath)) :
             /\ fs' = ExecOk(fs, "resize", currentPath, tempPath, s)
             /\ h' = [h EXCEPT !.calls = Append(@, "resize"),
                               !.rOut = {fs'[tempPath]}]
        /\ pc' = "resizeUnlink"
     \/ /\ fs' \in ExecFailures(fs, tempPath)
        /\ h' = [h EXCEPT !.partials = IF fs' = fs THEN @ ELSE @ \cup {tempPath},
                          !.calls = Append(@, "resize")]
        /\ pc' = "resizeCatch"
  /\ UNCHANGED <<ext, opts, report, failedAt, loop>>

\* fs.unlinkSync(currentPath) after a successful resize.
ResizeUnlink ==
  /\ pc = "resizeUnlink"
  /\ \/ /\ existsSync(fs, currentPath)
        /\ fs' = DropWorkingCopy(fs)
        /\ pc' = "resizeRename"
     \/ /\ pc' = "resizeCatch"
        /\ UNCHANGED fs
  /\ UNCHANGED <<ext, opts, report, failedAt, loop, h>>

\* fs.renameSync(tempPath, currentPath).
ResizeRename ==
  /\ pc = "resizeRename"
  /\ \/ /\ existsSync(fs, tempPath)
        /\ fs' = PromoteResize(fs)
        /\ h' = [h EXCEPT !.rApplied = TRUE, !.last = h.rOut]
        /\ pc' = "webp"
     \/ /\ pc' = "resizeCatch"
        /\ UNCHANGED <<fs, h>>
  /\ UNCHANGED <<ext, opts, report, failedAt, loop>>

\* catch of step 2: remove tempPath, continue with step 3.
ResizeCatch ==
  /\ pc = "resizeCatch"
  /\ fs' = ResizeCleanup(fs)
  /\ pc' = "webp"
  /\ UNCHANGED <<ext, opts, report, failedAt, loop, h>>

\* Step 3: execSync(gltf-transform webp currentPath tempPath2).
ExecWebp ==
  /\ pc = "webp"
  /\ \/ /\ existsSync(fs, currentPath)
        /\ \E s \in OutSizes(statSize(fs, currentPath)) :
             /\ fs' = ExecOk(fs, "webp", currentPath, tempPath2, s)
             /\ h' = [h EXCEPT !.calls = Append(@, "webp"),
                               !.wIn = {fs[currentPath]},
                               !.wOut = {fs'[tempPath2]}]
        /\ pc' = "webpUnlink"
     \/ /\ fs' \in ExecFailures(fs, tempPath2)
        /\ h' = [h EXCEPT !.partials = IF fs' = fs THEN @ ELSE @ \cup {tempPath2},
                          !.calls = Append(@, "webp"),
                          !.wIn = IF existsSync(fs, currentPath)
                                  THEN {fs[currentPath]} ELSE {}]
        /\ pc' = "webpCatch"
  /\ UNCHANGED <<ext, opts, report, failedAt, loop>>

\* fs.unlinkSync(currentPath) after a successful re-encode.
WebpUnlink ==
  /\ pc = "webpUnlink"
  /\ \/ /\ existsSync(fs, currentPath)
        /\ fs' = DropWorkingCopy(fs)
        /\ pc' = "webpRename"
     \/ /\ pc' = "webpCatch"
        /\ UNCHANGED fs
  /\ UNCHANGED <<ext, opts, report, failedAt, loop, h>>

\* fs.renameSync(tempPath2, currentPath).
WebpRename ==
  /\ pc = "webpRename"
  /\ \/ /\ existsSync(fs, tempPath2)
        /\ fs' = PromoteWebp(fs)
        /\ h' = [h EXCEPT !.wApplied = TRUE, !.last = h.wOut]
        /\ pc' = "report"
     \/ /\ pc' = "webpCatch"
        /\ UNCHANGED <<fs, h>>
  /\ UNCHANGED <<ext, opts, report, failedAt, loop>>

\* catch of step 3: remove tempPath2, continue with the report.
WebpCatch ==
  /\ pc = "webpCatch"
  /\ fs' = WebpCleanup(fs)
  /\ pc' = "report"
  /\ UNCHANGED <<ext, opts, report, failedAt, loop, h>>

\* optimizedSize, reduction and the report of the applied optimisations.
Report ==
  /\ pc = "report"
  /\ optimizedSize' = MeasureOptimized(fs)
  /\ reduction' = Reduction(originalSize, optimizedSize')
  /\ applied' = AppliedLines(opts)
  /\ h' = [h EXCEPT !.final = IF existsSync(fs, currentPath)
                              THEN {fs[currentPath]} ELSE {}]
  /\ pc' = "backup"
  /\ UNCHANGED <<fs, ext, opts, originalSize, failedAt, loop>>

\* if (backupOriginal && !exists(backupPath)) copyFileSync(inputPath, backupPath).
\* A copy that fails leaves no destination file.
Backup ==
  /\ pc = "backup"
  /\ IF NeedsBackup(fs, opts)
     THEN \/ /\ fs' = BackupCopy(fs)
             /\ h' = [h EXCEPT !.steps = @ \cup {"backup"}]
             /\ pc' = "unlinkInput"
             /\ UNCHANGED failedAt
          \/ /\ h' = [h EXCEPT !.steps = @ \cup {"backup"}]
             /\ pc' = "catch"
             /\ failedAt' = "backup"
             /\ UNCHANGED fs
     ELSE /\ pc' = "unlinkInput"
          /\ UNCHANGED <<fs, h, failedAt>>
  /\ UNCHANGED <<ext, opts, report, loop>>

\* fs.unlinkSync(inputPath).
UnlinkInput ==
  /\ pc = "unlinkInput"
  /\ h' = [h EXCEPT !.steps = @ \cup {"delete"}]
  /\ \/ /\ fs' = DeleteOriginal(fs)
        /\ pc' = "renameFinal"
        /\ UNCHANGED failedAt
     \/ /\ pc' = "catch"
        /\ failedAt' = "delete"
        /\ UNCHANGED fs
  /\ UNCHANGED <<ext, opts, report, loop>>

\* fs.renameSync(currentPath, inputPath); it throws when currentPath is gone.
RenameFinal ==
  /\ pc = "renameFinal"
  /\ \/ /\ existsSync(fs, currentPath)
        /\ fs' = FinalRename(fs)
        /\ h' = [h EXCEPT !.steps = @ \cup {"rename"}, !.committed = TRUE]
        /\ pc' = "binBackup"
        /\ UNCHANGED failedAt
     \/ /\ h' = [h EXCEPT !.steps = @ \cup {"rename"}]
        /\ pc' = "catch"
        /\ failedAt' = "rename"
        /\ UNCHANGED fs
  /\ UNCHANGED <<ext, opts, report, loop>>

\* Backup of the sibling buffer scene.bin of a .gltf asset.
BinBackup ==
  /\ pc = "binBackup"
  /\ IF NeedsBinBackup(fs, opts)
     THEN \/ /\ fs' = BinBackupCopy(fs)
             /\ h' = [h EXCEPT !.steps = @ \cup {"binBackup"}, !.exit = "replaced"]
             /\ pc' = "returned"
             /\ UNCHANGED failedAt
          \/ /\ h' = [h EXCEPT !.steps = @ \cup {"binBackup"}]
             /\ pc' = "catch"
             /\ failedAt' = "binBackup"
             /\ UNCHANGED fs
     ELSE /\ pc' = "returned"
          /\ h' = [h EXCEPT !.exit = "replaced"]
          /\ UNCHANGED <<fs, failedAt>>
  /\ UNCHANGED <<ext, opts, report, loop>>

\* catch (error): log it, remove outputPath if it exists, return normally.
Catch ==
  /\ pc = "catch"
  /\ fs' = CatchCleanup(fs)
  /\ h' = [h EXCEPT !.exit = failedAt]
  /\ pc' = "returned"
  /\ failedAt' = "none"
  /\ UNCHANGED <<ext, opts, report, loop>>

\* What main's loop body does with the outcome of optimizeModel: the call
\* returns undefined on every path and throws on none, so the try block runs
\* to its end.
CountOutcome(threw) ==
  IF threw THEN <<successCount, errorCount + 1>>
  ELSE <<successCount + 1, errorCount>>

\* optimizeModel has returned to main's loop body.
Return ==
  /\ pc = "returned"
  /\ LET c == CountOutcome(FALSE) IN
       /\ successCount' = c[1]
       /\ errorCount' = c[2]
  /\ pc' = "idle"
  /\ opts' = NoOpts
  /\ originalSize' = 0
  /\ optimizedSize' = 0
  /\ reduction' = NoReduction
  /\ applied' = {}
  /\ h' = NoHistory
  /\ UNCHANGED <<fs, ext, failedAt, runs>>

Next ==
  \/ Invoke
  \/ Validate
  \/ ExecMandatory
  \/ ExecResize
  \/ ResizeUnlink
  \/ ResizeRename
  \/ ResizeCatch
  \/ ExecWebp
  \/ WebpUnlink
  \/ WebpRename
  \/ WebpCatch
  \/ Report
  \/ Backup
  \/ UnlinkInput
  \/ RenameFinal
  \/ BinBackup
  \/ Catch
  \/ Return

Spec == Init /\ [][Next]_vars

----------------------------------------------------------------------------
\* Observations used by the properties below.

\* The invocation has returned to its caller (or the caller has moved on).
Returned == pc = "returned"

\* The asset as it stood at the original path when the invocation started.
HadOriginal == existsSync(h.fs0, inputPath)

Holds(p, c) == existsSync(fs, p) /\ fs[p] = c

NoTempFile == \A p \in TempPaths : ~existsSync(fs, p)

----------------------------------------------------------------------------
\* C1: at every return of optimizeModel the directory holds the original
\* asset's bytes (at the original path or in its backup) or the fully
\* optimized asset (the final working copy, at the original path or at its
\* temp path), whatever backupOriginal is.
C1_OriginalOrOptimizedKept ==
  (Returned /\ HadOriginal) =>
     \/ Holds(inputPath, h.fs0[inputPath])
     \/ Holds(backupPath, h.fs0[inputPath])
     \/ \E c \in h.final : Holds(inputPath, c) \/ Holds(currentPath, c)

----------------------------------------------------------------------------
C3_RejectionTouchesNothing ==
  (h.validated /\ ~h.valid) =>
     /\ fs = h.fs0
     /\ h.calls = <<>>
     /\ h.steps = {}

\* An existing asset was rejected and the call returned.
C3_Witness ==
  Returned /\ h.validated /\ ~h.valid /\ existsSync(fs, inputPath)

\* C4: whenever the final rename succeeded, the original path holds the
\* output of the last stage that succeeded: re-encode's if it succeeded,
\* else resize's if it succeeded, else the mandatory stage's.
C4_CommittedIsLastStageOutput ==
  h.committed =>
     /\ existsSync(fs, inputPath)
     /\ {fs[inputPath]} = (IF h.wApplied THEN h.wOut
                           ELSE IF h.rApplied THEN h.rOut
                           ELSE h.mOut)

\* Committed with resize applied and re-encode attempted but failed.
C4_Witness ==
  /\ Returned /\ h.committed
  /\ h.rApplied /\ ~h.wApplied
  /\ h.calls = <<"optimize", "resize", "webp">>

\* C5 as claimed: whenever an invocation with backupOriginal commits, the
\* backup is byte-identical to the asset as it stood before that invocation.
C5_BackupIsThisRunsOriginal ==
  (h.committed /\ opts.backupOriginal) => Holds(backupPath, h.fs0[inputPath])

\* C5 amended: whenever an invocation with backupOriginal commits, the backup
\* is byte-identical to the pre-pipeline original if no backup existed when
\* the invocation started, and otherwise still has the bytes it had then; it
\* is never a working copy.
C5_BackupIsOriginalOfCreatingRun ==
  (h.committed /\ opts.backupOriginal) =>
     Holds(backupPath, IF existsSync(h.fs0, backupPath)
                       THEN h.fs0[backupPath] ELSE h.fs0[inputPath])

\* A committed invocation that created the backup itself.
C5_Witness ==
  /\ Returned /\ h.committed /\ opts.backupOriginal
  /\ ~existsSync(h.fs0, backupPath)
  /\ "backup" \in h.steps

\* C6: a backup file that exists is never written, replaced or deleted by
\* any step of any later invocation.
C6_ExistingBackupNeverTouched ==
  [][existsSync(fs, backupPath) =>
       (existsSync(fs', backupPath) /\ fs'[backupPath] = fs[backupPath])]_vars

\* A later invocation with backupOriginal committed over an existing backup.
C6_Witness ==
  /\ Returned /\ h.committed /\ opts.backupOriginal
  /\ runs >= 2
  /\ existsSync(h.fs0, backupPath)
  /\ Holds(backupPath, h.fs0[backupPath])

\* C7: mandatory succeeds, resize fails, re-encode succeeds: resize is
\* reported as not applied and re-encode as applied, re-encode was run on the
\* mandatory stage's output, and the committed asset is re-encode's output.
C7_ResizeFailureRecorded ==
  (/\ Returned /\ h.committed
   /\ "resize" \in {h.calls[i] : i \in DOMAIN h.calls}
   /\ ~h.rApplied /\ h.wApplied) =>
     /\ "resize" \notin applied
     /\ "webp" \in applied
     /\ h.wIn = h.mOut
     /\ {fs[inputPath]} = h.wOut

C9_FailureNotCountedAsSuccess ==
  [][(Returned /\ h.exit \in {"invalid", "mandatory"}) =>
       successCount' = successCount]_vars

\* C10: once the sizes are reported, the final size is the size of the final
\* working copy, the original size is the size of the asset before the
\* pipeline, and the reduction is derived from these two.
C10_FinalSizeIsWorkingCopySize ==
  (pc = "backup" /\ existsSync(fs, currentPath)) =>
     /\ originalSize = getGltfModelSize(h.fs0, inputPath)
     /\ optimizedSize = getGltfModelSize(fs, currentPath)
     /\ reduction = Reduction(originalSize, optimizedSize)

----------------------------------------------------------------------------
\* Transforms invoked so far by the current invocation, as a set.
Called == {h.calls[i] : i \in DOMAIN h.calls}

\* Positions of optimizeModel that lie after the re-encode transform.
AfterWebpExec ==
  {"webpUnlink", "webpRename", "webpCatch", "report", "backup",
   "unlinkInput", "renameFinal", "binBackup", "returned"}

C20_FailedStageKeepsWorkingCopy ==
  /\ (pc = "webp" /\ "resize" \in Called /\ ~h.rApplied) =>
        (\E c \in h.mOut : Holds(currentPath, c)) /\ ~existsSync(fs, tempPath)
  /\ ("webp" \in Called /\ "resize" \in Called /\ ~h.rApplied) => h.wIn = h.mOut
  /\ (pc = "report" /\ "webp" \in Called /\ ~h.wApplied) =>
        (\E c \in h.last : Holds(currentPath, c)) /\ ~existsSync(fs, tempPath2)

----------------------------------------------------------------------------
\* A process crash: the process stops wherever optimizeModel is, and the
\* directory stays as the last completed fs call left it.
Crash ==
  /\ pc \notin {"idle", "crashed"}
  /\ pc' = "crashed"
  /\ UNCHANGED <<fs, ext, opts, report, failedAt, loop, h>>

NextCrash == Next \/ Crash

SpecCrash == Init /\ [][NextCrash]_vars

\* C12: a crash at any instant of a run leaves a file at the original path,
\* or else the final working copy at its temp path and, when backupOriginal
\* is true, a backup file at the backup path.
C12_CrashLeavesAssetOrWorkingCopy ==
  (pc = "crashed" /\ HadOriginal) =>
     \/ existsSync(fs, inputPath)
     \/ /\ \E c \in h.final : Holds(currentPath, c)
        /\ opts.backupOriginal => existsSync(fs, backupPath)

----------------------------------------------------------------------------
\* Directories that also hold leftovers of an interrupted earlier run (or
\* files of the user) at the paths optimizeModel derives for its outputs.

LeftoverContent == Content(0, "leftover", MB, TRUE)

WithLeftovers(f, L) ==
  [p \in (DOMAIN f) \cup L |-> IF p \in L THEN LeftoverContent ELSE f[p]]

InitLeftover ==
  /\ ext \in {".glb", ".gltf"}
  /\ \E f \in InitDirs(ext), L \in SUBSET TempPaths : fs = WithLeftovers(f, L)
  /\ pc = "idle"
  /\ opts = NoOpts
  /\ originalSize = 0
  /\ optimizedSize = 0
  /\ reduction = NoReduction
  /\ applied = {}
  /\ failedAt = "none"
  /\ runs = 0
  /\ successCount = 0
  /\ errorCount = 0
  /\ h = NoHistory

SpecLeftover == InitLeftover /\ [][Next]_vars

\* C18: no stage starts while a file is present at its output path: a file
\* left there before the invocation has been removed by the time the
\* transform of that stage is about to run.
C18_StaleTempRemovedBeforeStage ==
  /\ pc = "mandatory" => ~existsSync(fs, outputPath)
  /\ pc = "resize" => ~existsSync(fs, tempPath)
  /\ pc = "webp" => ~existsSync(fs, tempPath2)

----------------------------------------------------------------------------
\* Two invocations of optimizeModel run by two processes on one directory.
\* Under SpecPair a path is a file name [base, ext] whose base is the
\* sequence of the dash-separated parts of the name, so that the derived
\* names are computed as the template strings compute them; pc, opts and h
\* map each process to its position, its call arguments (inputPath and
\* options) and the paths it has read and written so far.  An fs call throws
\* when the file it needs is not there, a transform may also fail by itself.

Procs == {"A", "B"}

File(base, e) == [base |-> base, ext |-> e]

outputPathOf(i) == File(Append(i.base, "optimized"), i.ext)

backupPathOf(i) == File(Append(i.base, "original"), i.ext)

tempPathOf(i) == File(Append(outputPathOf(i).base, "temp"), i.ext)

tempPath2Of(i) == File(Append(outputPathOf(i).base, "temp2"), i.ext)

namedBinPathOf(i) == File(i.base, ".bin")

sceneBinPath == File(<<"scene">>, ".bin")

sceneBinBackupPath == File(<<"scene", "original">>, ".bin")

\* Paths getGltfModelSize looks at for the asset i.
SizeReads(f, i) ==
  {i} \cup (IF i.ext # ".gltf" THEN {}
            ELSE IF existsSync(f, namedBinPathOf(i)) THEN {namedBinPathOf(i)}
            ELSE {namedBinPathOf(i), sceneBinPath})

\* Assets found in the directory: .glb and .gltf files of any name.
Assets ==
  { File(<<"a">>, ".glb"), File(<<"b">>, ".glb"),
    File(<<"a", "optimized">>, ".glb"), File(<<"a", "original">>, ".glb"),
    File(<<"a">>, ".gltf"), File(<<"b">>, ".gltf") }

PairArgs ==
  [inputPath : Assets, resizeTextures : BOOLEAN, backupOriginal : BOOLEAN]

PairDir(as, bin) ==
  [q \in as \cup bin |->
     IF q \in as THEN Content(0, "orig", 2 * MB, TRUE) ELSE Content(0, "bin", MB, TRUE)]

InitPair ==
  /\ opts \in [Procs -> PairArgs]
  /\ opts["A"].inputPath # opts["B"].inputPath
  /\ \E bin \in SUBSET {sceneBinPath} :
       fs = PairDir({opts[p].inputPath : p \in Procs}, bin)
  /\ pc = [p \in Procs |-> "validate"]
  /\ h = [p \in Procs |-> [reads |-> {}, writes |-> {}]]
  /\ ext = ".glb"
  /\ originalSize = 0
  /\ optimizedSize = 0
  /\ reduction = NoReduction
  /\ applied = {}
  /\ failedAt = "none"
  /\ runs = 0
  /\ successCount = 0
  /\ errorCount = 0

PairFrame ==
  UNCHANGED <<ext, opts, originalSize, optimizedSize, reduction, applied,
              failedAt, runs, successCount, errorCount>>

Goto(p, l) == pc' = [pc EXCEPT ![p] = l]

Touch(p, r, w) ==
  h' = [h EXCEPT ![p] = [reads |-> @.reads \cup r, writes |-> @.writes \cup w]]

\* execSync of a transform by process p: done, or thrown with nothing written.
PairExec(p, stage, src, dst, done, thrown) ==
  \E ok \in BOOLEAN :
    /\ ok => existsSync(fs, src)
    /\ IF ok
       THEN /\ fs' = WriteFile(fs, dst, Content(p, stage, MB, TRUE))
            /\ Touch(p, {src}, {dst})
            /\ Goto(p, done)
       ELSE /\ fs' = fs
            /\ Touch(p, {src}, {})
            /\ Goto(p, thrown)

\* fs.unlinkSync(x) by process p.
PairUnlink(p, x, done, thrown) ==
  /\ Touch(p, {}, {x})
  /\ IF existsSync(fs, x)
     THEN fs' = unlinkSync(fs, x) /\ Goto(p, done)
     ELSE fs' = fs /\ Goto(p, thrown)

\* fs.renameSync(src, dst) by process p.
PairRename(p, src, dst, done, thrown) ==
  /\ Touch(p, {}, {src, dst})
  /\ IF existsSync(fs, src)
     THEN fs' = renameSync(fs, src, dst) /\ Goto(p, done)
     ELSE fs' = fs /\ Goto(p, thrown)

\* if (fs.existsSync(x)) fs.unlinkSync(x) of a catch block.
PairCleanup(p, x, done) ==
  /\ fs' = unlinkSync(fs, x)
  /\ Touch(p, {x}, IF existsSync(fs, x) THEN {x} ELSE {})
  /\ Goto(p, done)

PairValidate(p) ==
  /\ pc[p] = "validate"
  /\ fs' = fs
  /\ Touch(p, {opts[p].inputPath}, {})
  /\ Goto(p, IF validateGltfModel(fs, opts[p].inputPath).valid THEN "size" ELSE "returned")
  /\ PairFrame

PairOriginalSize(p) ==
  /\ pc[p] = "size"
  /\ fs' = fs
  /\ Touch(p, SizeReads(fs, opts[p].inputPath), {})
  /\ Goto(p, "mandatory")
  /\ PairFrame

PairExecMandatory(p) ==
  /\ pc[p] = "mandatory"
  /\ PairExec(p, "optimize", opts[p].inputPath, outputPathOf(opts[p].inputPath),
              IF opts[p].resizeTextures THEN "resize" ELSE "webp", "catch")
  /\ PairFrame

PairExecResize(p) ==
  /\ pc[p] = "resize"
  /\ PairExec(p, "resize", outputPathOf(opts[p].inputPath), tempPathOf(opts[p].inputPath),
              "resizeUnlink", "resizeCatch")
  /\ PairFrame

PairResizeUnlink(p) ==
  /\ pc[p] = "resizeUnlink"
  /\ PairUnlink(p, outputPathOf(opts[p].inputPath), "resizeRename", "resizeCatch")
  /\ PairFrame

PairResizeRename(p) ==
  /\ pc[p] = "resizeRename"
  /\ PairRename(p, tempPathOf(opts[p].inputPath), outputPathOf(opts[p].inputPath),
                "webp", "resizeCatch")
  /\ PairFrame

PairResizeCatch(p) ==
  /\ pc[p] = "resizeCatch"
  /\ PairCleanup(p, tempPathOf(opts[p].inputPath), "webp")
  /\ PairFrame

PairExecWebp(p) ==
  /\ pc[p] = "webp"
  /\ PairExec(p, "webp", outputPathOf(opts[p].inputPath), tempPath2Of(opts[p].inputPath),
              "webpUnlink", "webpCatch")
  /\ PairFrame

PairWebpUnlink(p) ==
  /\ pc[p] = "webpUnlink"
  /\ PairUnlink(p, outputPathOf(opts[p].inputPath), "webpRename", "webpCatch")
  /\ PairFrame

PairWebpRename(p) ==
  /\ pc[p] = "webpRename"
  /\ PairRename(p, tempPath2Of(opts[p].inputPath), outputPathOf(opts[p].inputPath),
                "report", "webpCatch")
  /\ PairFrame

PairWebpCatch(p) ==
  /\ pc[p] = "webpCatch"
  /\ PairCleanup(p, tempPath2Of(opts[p].inputPath), "report")
  /\ PairFrame

PairReport(p) ==
  /\ pc[p] = "report"
  /\ fs' = fs
  /\ Touch(p, SizeReads(fs, opts[p].inputPath), {})
  /\ Goto(p, "backup")
  /\ PairFrame

PairBackup(p) ==
  /\ pc[p] = "backup"
  /\ LET i == opts[p].inputPath
         b == backupPathOf(opts[p].inputPath)
     IN  IF opts[p].backupOriginal /\ ~existsSync(fs, b)
         THEN IF existsSync(fs, i)
              THEN fs' = copyFileSync(fs, i, b) /\ Touch(p, {b, i}, {b}) /\ Goto(p, "unlinkInput")
              ELSE fs' = fs /\ Touch(p, {b, i}, {}) /\ Goto(p, "catch")
         ELSE fs' = fs
              /\ Touch(p, IF opts[p].backupOriginal THEN {b} ELSE {}, {})
              /\ Goto(p, "unlinkInput")
  /\ PairFrame

PairUnlinkInput(p) ==
  /\ pc[p] = "unlinkInput"
  /\ PairUnlink(p, opts[p].inputPath, "renameFinal", "catch")
  /\ PairFrame

PairRenameFinal(p) ==
  /\ pc[p] = "renameFinal"
  /\ PairRename(p, outputPathOf(opts[p].inputPath), opts[p].inputPath, "binBackup", "catch")
  /\ PairFrame

PairBinBackup(p) ==
  /\ pc[p] = "binBackup"
  /\ IF opts[p].inputPath.ext = ".gltf" /\ existsSync(fs, sceneBinPath)
     THEN IF opts[p].backupOriginal /\ ~existsSync(fs, sceneBinBackupPath)
          THEN /\ fs' = copyFileSync(fs, sceneBinPath, sceneBinBackupPath)
               /\ Touch(p, {sceneBinPath, sceneBinBackupPath}, {sceneBinBackupPath})
          ELSE /\ fs' = fs
               /\ Touch(p, {sceneBinPath}
                           \cup (IF opts[p].backupOriginal THEN {sceneBinBackupPath} ELSE {}), {})
     ELSE /\ fs' = fs
          /\ Touch(p, IF opts[p].inputPath.ext = ".gltf" THEN {sceneBinPath} ELSE {}, {})
  /\ Goto(p, "returned")
  /\ PairFrame

PairCatch(p) ==
  /\ pc[p] = "catch"
  /\ PairCleanup(p, outputPathOf(opts[p].inputPath), "returned")
  /\ PairFrame

NextPair ==
  \E p \in Procs :
    \/ PairValidate(p)
    \/ PairOriginalSize(p)
    \/ PairExecMandatory(p)
    \/ PairExecResize(p)
    \/ PairResizeUnlink(p)
    \/ PairResizeRename(p)
    \/ PairResizeCatch(p)
    \/ PairExecWebp(p)
    \/ PairWebpUnlink(p)
    \/ PairWebpRename(p)
    \/ PairWebpCatch(p)
    \/ PairReport(p)
    \/ PairBackup(p)
    \/ PairUnlinkInput(p)
    \/ PairRenameFinal(p)
    \/ PairBinBackup(p)
    \/ PairCatch(p)

SpecPair == InitPair /\ [][NextPair]_vars

\* C11: of two concurrent invocations on distinct assets, neither writes,
\* deletes or renames a path the other reads or writes (and so neither reads
\* a path the other writes).
C11_DistinctAssetsDoNotInterfere ==
  \A p \in Procs, q \in Procs :
    p # q => h[p].writes \cap (h[q].reads \cup h[q].writes) = {}

----------------------------------------------------------------------------
\* validateGltfModel in full: the checks it makes on the bytes of a .glb
\* file and on the parsed text of a .gltf file.  An outcome is what a call
\* gives its caller: a return value { valid, error } (error "none" when the
\* property is absent; detail is the text interpolated into the message), or
\* an exception (threw).

\* Chunks of a generated .glb body.
MaxChunks == 2

\* Entries of the buffers array of a generated .gltf document.
MaxBuffers == 2

Valid == [threw |-> FALSE, valid |-> TRUE, error |-> "none", detail |-> "none"]

Invalid(e, d) == [threw |-> FALSE, valid |-> FALSE, error |-> e, detail |-> d]

Throw(m) == [threw |-> TRUE, valid |-> FALSE, error |-> "none", detail |-> m]

\* try { r } catch (error) { return { valid: false, error: `${e}: ${error.message}` } }
CatchAs(e, r) == IF r.threw THEN Invalid(e, r.detail) ELSE r

\* Buffer.writeUInt32LE / readUInt32LE; offsets count from 0 as in the source.
U32LE(n) ==
  <<n % 256, (n \div 256) % 256, (n \div 65536) % 256, (n \div 16777216) % 256>>

readUInt32LE(content, offset) ==
  content[offset + 1] + 256 * content[offset + 2]
    + 65536 * content[offset + 3] + 16777216 * content[offset + 4]

\* content.toString('utf8', start, end) as bytes: end is clamped to the length.
Slice(content, start, end) ==
  SubSeq(content, start + 1, IF end < Len(content) THEN end ELSE Len(content))

\* ASCII "glTF", "gltf", "JSON", "BIN\0", "XXXX".
MagicGlTF == <<103, 108, 84, 70>>

MagicOther == <<103, 108, 116, 102>>

TagJSON == <<74, 83, 79, 78>>

TagBIN == <<66, 73, 78, 0>>

TagOther == <<88, 88, 88, 88>>

\* ASCII {"asset":{"version":"2.0"}}, {"asset":{"version":"1.0"}}, {}, {
DocV2 == <<123, 34, 97, 115, 115, 101, 116, 34, 58, 123, 34, 118, 101, 114, 115, 105, 111, 110, 34, 58, 34, 50, 46, 48, 34, 125, 125>>

DocV1 == <<123, 34, 97, 115, 115, 101, 116, 34, 58, 123, 34, 118, 101, 114, 115, 105, 111, 110, 34, 58, 34, 49, 46, 48, 34, 125, 125>>

DocNoAsset == <<123, 125>>

DocBroken == <<123>>

RECURSIVE StripSpaces(_)
StripSpaces(text) ==
  IF text # <<>> /\ text[Len(text)] = 32
  THEN StripSpaces(SubSeq(text, 1, Len(text) - 1))
  ELSE text

\* JSON.parse on the texts the scan can hand it: a document of the table,
\* space padded or not, parses; the empty text, a proper prefix of a document
\* and a document followed by the bytes of the next chunk are syntax errors.
JSONparse(text) ==
  LET t == StripSpaces(text) IN
    IF t = DocV2 THEN [threw |-> FALSE, version |-> "2.0"]
    ELSE IF t = DocV1 THEN [threw |-> FALSE, version |-> "1.0"]
    ELSE IF t = DocNoAsset THEN [threw |-> FALSE, version |-> "none"]
    ELSE [threw |-> TRUE, version |-> "none"]

\* The JSON chunk's try block (optimize.js 187-202): Valid stands for no return.
JsonChunkCheck(text) ==
  LET gltf == JSONparse(text) IN
    IF gltf.threw THEN Invalid("JSON GLB invalide", "SyntaxError")
    ELSE IF gltf.version = "none"
      THEN Invalid("Chunk JSON GLB invalide (asset.version manquant)", "none")
    ELSE IF gltf.version # "2.0"
      THEN Invalid("Version GLTF dans GLB non supportee", gltf.version)
    ELSE Valid

ScanEndAlwaysValid(hasJSONChunk) == Valid

\* After the while loop: a .glb needs a JSON chunk.
ScanEnd(hasJSONChunk) ==
  IF ~hasJSONChunk THEN Invalid("GLB sans chunk JSON", "none") ELSE Valid

\* The while loop over the chunks, from offset.
RECURSIVE ScanChunks(_, _, _)
ScanChunks(content, offset, hasJSONChunk) ==
  IF ~(offset < Len(content)) THEN ScanEnd(hasJSONChunk)
  ELSE IF offset + 8 > Len(content) THEN Invalid("Chunk GLB incomplet", "none")
  ELSE LET chunkLength == readUInt32LE(content, offset)
           chunkType == Slice(content, offset + 4, offset + 8)
           json == JsonChunkCheck(Slice(content, offset + 8, offset + 8 + chunkLength))
       IN  IF chunkType = TagJSON /\ ~json.valid THEN json
           ELSE ScanChunks(content, offset + 8 + chunkLength,
                           hasJSONChunk \/ chunkType = TagJSON)

GlbHeaderChecksVersionFirst(content) ==
  IF Len(content) < 12 THEN Invalid("Fichier GLB trop petit", "none")
  ELSE IF readUInt32LE(content, 4) # 2 THEN Invalid("Version GLB non supportee", "version")
  ELSE IF Slice(content, 0, 4) # MagicGlTF THEN Invalid("Magic number GLB invalide", "none")
  ELSE IF readUInt32LE(content, 8) # Len(content)
    THEN Invalid("Longueur GLB declaree incorrecte", "length")
  ELSE ScanChunks(content, 12, FALSE)

GlbHeaderChecksLengthBeforeVersion(content) ==
  IF Len(content) < 12 THEN Invalid("Fichier GLB trop petit", "none")
  ELSE IF Slice(content, 0, 4) # MagicGlTF THEN Invalid("Magic number GLB invalide", "none")
  ELSE IF readUInt32LE(content, 8) # Len(content)
    THEN Invalid("Longueur GLB declaree incorrecte", "length")
  ELSE IF readUInt32LE(content, 4) # 2 THEN Invalid("Version GLB non supportee", "version")
  ELSE ScanChunks(content, 12, FALSE)

\* The checks on the bytes of a .glb file (optimize.js 149-214).
GlbHeaderChecks(content) ==
  IF Len(content) < 12 THEN Invalid("Fichier GLB trop petit", "none")
  ELSE IF Slice(content, 0, 4) # MagicGlTF THEN Invalid("Magic number GLB invalide", "none")
  ELSE IF readUInt32LE(content, 4) # 2 THEN Invalid("Version GLB non supportee", "version")
  ELSE IF readUInt32LE(content, 8) # Len(content)
    THEN Invalid("Longueur GLB declaree incorrecte", "length")
  ELSE ScanChunks(content, 12, FALSE)

\* The .glb block: readFileSync and the checks, inside its try / catch.
GlbChecks(file, throwing) ==
  CatchAs("Erreur de lecture GLB",
        IF throwing = "readFileSync" THEN Throw("readFileSync")
        ELSE GlbHeaderChecks(file.bytes))

\* path.join(path.dirname(filePath), buffer.uri) for a plain file name.
ResolveUri(uri) == uri

BufferCheckSkipped(f, buffers) == Valid

\* The check of the referenced .bin file (optimize.js 127-136).
BufferCheck(f, buffers) ==
  IF Len(buffers) > 0 /\ buffers[1] # "none" /\ ~existsSync(f, ResolveUri(buffers[1]))
  THEN Invalid("Fichier binaire manquant", buffers[1])
  ELSE Valid

\* The .gltf block: readFileSync, JSON.parse and the checks, inside its
\* try / catch.  A document is [syntax, version, buffers]: syntax "error" is
\* text JSON.parse rejects, "null" the text null, whose property access
\* throws; version "none" is a missing asset.version, a buffer "none" an
\* entry without uri.
GltfChecks(f, file, throwing) ==
  CatchAs("JSON invalide",
        IF throwing = "readFileSync" THEN Throw("readFileSync")
        ELSE IF file.doc.syntax = "error" THEN Throw("SyntaxError")
        ELSE IF file.doc.syntax = "null" THEN Throw("TypeError")
        ELSE IF file.doc.version = "none"
          THEN Invalid("Structure GLTF invalide (asset.version manquant)", "none")
        ELSE IF file.doc.version # "2.0"
          THEN Invalid("Version GLTF non supportee", file.doc.version)
        ELSE BufferCheck(f, file.doc.buffers))

\* Mutation: the .glb ending is matched without regard to case.
ValidateBodyIgnoringCase(f, p, e, throwing) ==
  IF ~existsSync(f, p) THEN Invalid("Fichier introuvable", "none")
  ELSE IF throwing = "statSync" THEN Throw("statSync")
  ELSE IF f[p].size = 0 THEN Invalid("Fichier vide", "none")
  ELSE IF e = ".gltf" THEN GltfChecks(f, f[p], throwing)
  ELSE IF e \in {".glb", ".GLB"} THEN GlbChecks(f[p], throwing)
  ELSE Valid

\* The body of the outer try block, for the file at path p with extension e;
\* throwing names the fs call that fails during this call, if any.
ValidateBody(f, p, e, throwing) ==
  IF ~existsSync(f, p) THEN Invalid("Fichier introuvable", "none")
  ELSE IF throwing = "statSync" THEN Throw("statSync")
  ELSE IF f[p].size = 0 THEN Invalid("Fichier vide", "none")
  ELSE IF e = ".gltf" THEN GltfChecks(f, f[p], throwing)
  ELSE IF e = ".glb" THEN GlbChecks(f[p], throwing)
  ELSE Valid

validateGltfFileNoCatch(f, p, e, throwing) == ValidateBody(f, p, e, throwing)

validateGltfFile(f, p, e, throwing) ==
  CatchAs("Erreur lors de la validation", ValidateBody(f, p, e, throwing))

----------------------------------------------------------------------------
\* Files handed to the validator.

Chunk(chunkType, payload, chunkLength) == U32LE(chunkLength) \o chunkType \o payload

\* A chunk declares the length of its payload, or 4 bytes more than it has.
ChunksOf(chunkType, payloads) ==
  { Chunk(chunkType, pl, Len(pl) + over) : pl \in payloads, over \in {0, 4} }

ChunkChoices ==
  ChunksOf(TagJSON, {DocV2, DocV2 \o <<32>>, DocV1, DocNoAsset, DocBroken})
    \cup ChunksOf(TagBIN, {<<>>, <<0, 0, 0, 0>>})
    \cup ChunksOf(TagOther, {<<0, 0, 0, 0>>})

RECURSIVE Bodies(_)
Bodies(n) ==
  IF n = 0 THEN {<<>>}
  ELSE LET B == Bodies(n - 1) IN B \cup { body \o c : body \in B, c \in ChunkChoices }

GlbFile(magic, version, lengthError, body) ==
  magic \o U32LE(version) \o U32LE(12 + Len(body) + lengthError) \o body

\* Well-formed headers over every body, with and without 4 stray bytes at
\* the end; malformed headers over short bodies; files cut before byte 12.
GlbFiles ==
  { GlbFile(MagicGlTF, 2, 0, body \o tail) :
      body \in Bodies(MaxChunks), tail \in {<<>>, <<0, 0, 0, 0>>} }
  \cup { GlbFile(m, v, le, body) :
           m \in {MagicGlTF, MagicOther}, v \in {1, 2}, le \in {0, 1}, body \in Bodies(1) }
  \cup { SubSeq(GlbFile(m, 2, 0, <<>>), 1, n) : m \in {MagicGlTF, MagicOther}, n \in 0..11 }

Uris == {"a.bin", "b.bin"}

RECURSIVE BufferLists(_)
BufferLists(n) ==
  IF n = 0 THEN {<<>>}
  ELSE LET B == BufferLists(n - 1) IN
         B \cup { Append(bs, u) : bs \in B, u \in Uris \cup {"none"} }

GltfDocs ==
  [syntax : {"ok"}, version : {"none", "1.0", "2.0"}, buffers : BufferLists(MaxBuffers)]
  \cup [syntax : {"error", "null"}, version : {"none"}, buffers : {<<>>}]

NoDoc == [syntax |-> "error", version |-> "none", buffers |-> <<>>]

GlbContent(bytes) == [size |-> Len(bytes), bytes |-> bytes, doc |-> NoDoc]

GltfContent(size, doc) == [size |-> size, bytes |-> <<>>, doc |-> doc]

\* The asset's file, for each extension.
ValidateFiles(e) ==
  IF e = ".glb" THEN { GlbContent(bytes) : bytes \in GlbFiles }
  ELSE IF e = ".gltf"
    THEN { GltfContent(MB, doc) : doc \in GltfDocs } \cup {GltfContent(0, NoDoc)}
  ELSE {GlbContent(<<>>), GlbContent(<<0>>)}

\* Directories: the asset or nothing at inputPath, any of the .bin siblings.
ValidateDirs(e) ==
  { [q \in {inputPath} \cup bins |-> IF q = inputPath THEN c ELSE GlbContent(<<0>>)] :
      c \in ValidateFiles(e), bins \in (IF e = ".gltf" THEN SUBSET Uris ELSE {{}}) }
  \cup { [q \in {} |-> GlbContent(<<>>)] }

NoOutcome == [threw |-> FALSE, valid |-> FALSE, error |-> "pending", detail |-> "none"]

InitValidate ==
  /\ ext \in {".glb", ".gltf", ".bin", ".GLB"}
  /\ fs \in ValidateDirs(ext)
  /\ failedAt \in {"none", "statSync", "readFileSync"}
  /\ pc = "validate"
  /\ h = NoOutcome
  /\ opts = NoOpts
  /\ originalSize = 0
  /\ optimizedSize = 0
  /\ reduction = NoReduction
  /\ applied = {}
  /\ runs = 0
  /\ successCount = 0
  /\ errorCount = 0

\* One call validateGltfModel(inputPath); h holds what the caller gets.
ValidateCall ==
  /\ pc = "validate"
  /\ h' = validateGltfFile(fs, inputPath, ext, failedAt)
  /\ pc' = "validated"
  /\ UNCHANGED <<fs, ext, opts, originalSize, optimizedSize, reduction, applied,
                 failedAt, runs, successCount, errorCount>>

NextValidate == ValidateCall

SpecValidate == InitValidate /\ [][NextValidate]_vars

----------------------------------------------------------------------------
\* Properties of the validator, on the state after the call.

Validated == pc = "validated"

\* The call has read the bytes of an existing .glb file.
GlbRead ==
  /\ Validated
  /\ ext = ".glb"
  /\ failedAt = "none"
  /\ existsSync(fs, inputPath)

\* The call has read the text of an existing, non-empty .gltf file.
GltfRead ==
  /\ Validated
  /\ ext = ".gltf"
  /\ failedAt = "none"
  /\ existsSync(fs, inputPath)
  /\ fs[inputPath].size > 0

\* Some chunk header met from offset on, stepping 8 + L per chunk, declares
\* a length L larger than the number of bytes that follow the header.
RECURSIVE DeclaresOverlong(_, _)
DeclaresOverlong(content, offset) ==
  /\ offset + 8 <= Len(content)
  /\ \/ readUInt32LE(content, offset) > Len(content) - (offset + 8)
     \/ DeclaresOverlong(content, offset + 8 + readUInt32LE(content, offset))

\* C13: a .glb file in which a chunk header reached by the scan declares more
\* payload bytes than remain after it is Invalid, whatever the chunk's tag.
C13_TruncatedPayloadInvalid ==
  (GlbRead /\ Len(fs[inputPath].bytes) >= 12 /\ DeclaresOverlong(fs[inputPath].bytes, 12))
    => ~h.valid

\* C14 as stated: every .glb byte sequence, of any length, whose first four
\* bytes are not glTF is Invalid with the magic-number reason.
C14_BadMagicAnyLength ==
  (GlbRead /\ Slice(fs[inputPath].bytes, 0, 4) # MagicGlTF)
    => (~h.valid /\ h.error = "Magic number GLB invalide")

\* C14 amended: every .glb byte sequence of at least 12 bytes whose first four
\* bytes are not glTF is Invalid with the magic-number reason, whatever its
\* other bytes.
C14_BadMagicFromTwelveBytes ==
  (GlbRead /\ Len(fs[inputPath].bytes) >= 12 /\ Slice(fs[inputPath].bytes, 0, 4) # MagicGlTF)
    => (~h.valid /\ h.error = "Magic number GLB invalide")

C14_Witness ==
  /\ GlbRead
  /\ Len(fs[inputPath].bytes) > 12
  /\ Slice(fs[inputPath].bytes, 0, 4) # MagicGlTF
  /\ readUInt32LE(fs[inputPath].bytes, 4) # 2
  /\ readUInt32LE(fs[inputPath].bytes, 8) # Len(fs[inputPath].bytes)
  /\ h.error = "Magic number GLB invalide"

\* The header of content is correct: magic, version 2, declared length.
HeaderCorrect(content) ==
  /\ Len(content) >= 12
  /\ Slice(content, 0, 4) = MagicGlTF
  /\ readUInt32LE(content, 4) = 2
  /\ readUInt32LE(content, 8) = Len(content)

\* The chunks from offset on end exactly at the end of content and none of
\* them is tagged JSON.
RECURSIVE ScanMeetsNoJson(_, _)
ScanMeetsNoJson(content, offset) ==
  \/ offset = Len(content)
  \/ /\ offset + 8 <= Len(content)
     /\ Slice(content, offset + 4, offset + 8) # TagJSON
     /\ readUInt32LE(content, offset) <= Len(content) - (offset + 8)
     /\ ScanMeetsNoJson(content, offset + 8 + readUInt32LE(content, offset))

\* C15: a .glb file with a correct header whose chunk scan completes without
\* meeting a JSON chunk (the header-only file, BIN or unrecognized chunks
\* only) is Invalid with the no-JSON-chunk reason.
C15_NoJsonChunkInvalid ==
  (GlbRead /\ HeaderCorrect(fs[inputPath].bytes) /\ ScanMeetsNoJson(fs[inputPath].bytes, 12))
    => (~h.valid /\ h.error = "GLB sans chunk JSON")

C15_Witness ==
  /\ GlbRead
  /\ HeaderCorrect(fs[inputPath].bytes)
  /\ Len(fs[inputPath].bytes) > 12
  /\ ScanMeetsNoJson(fs[inputPath].bytes, 12)
  /\ Slice(fs[inputPath].bytes, 16, 20) = TagBIN
  /\ h.error = "GLB sans chunk JSON"

\* The buffer URIs the document declares that resolve to no existing file.
MissingUris ==
  { u \in { fs[inputPath].doc.buffers[i] : i \in DOMAIN fs[inputPath].doc.buffers } :
      u # "none" /\ ~existsSync(fs, ResolveUri(u)) }

\* C16 as stated: a .gltf asset that declares a buffer URI resolving to no
\* existing file is Invalid and the reason contains that URI.
C16_MissingBufferUriReported ==
  (GltfRead /\ fs[inputPath].doc.syntax = "ok" /\ MissingUris # {})
    => (~h.valid /\ h.error = "Fichier binaire manquant" /\ h.detail \in MissingUris)

\* C16 amended: a .gltf asset that parses, has asset.version 2.0 and whose
\* first buffer entry has a URI resolving to no existing file is Invalid and
\* the reason contains that URI.
C16_FirstBufferUriReported ==
  ( /\ GltfRead
    /\ fs[inputPath].doc.syntax = "ok"
    /\ fs[inputPath].doc.version = "2.0"
    /\ Len(fs[inputPath].doc.buffers) > 0
    /\ fs[inputPath].doc.buffers[1] \in MissingUris )
    => ( /\ ~h.valid
         /\ h.error = "Fichier binaire manquant"
         /\ h.detail = fs[inputPath].doc.buffers[1] )

C16_Witness ==
  /\ GltfRead
  /\ fs[inputPath].doc.version = "2.0"
  /\ Len(fs[inputPath].doc.buffers) = 2
  /\ fs[inputPath].doc.buffers[1] \in MissingUris
  /\ ~existsSync(fs, fs[inputPath].doc.buffers[1])
  /\ existsSync(fs, fs[inputPath].doc.buffers[2])
  /\ h.detail = fs[inputPath].doc.buffers[1]

\* An fs call of this validation has thrown.
IoFailureHit ==
  /\ existsSync(fs, inputPath)
  /\ \/ failedAt = "statSync"
     \/ failedAt = "readFileSync" /\ fs[inputPath].size > 0 /\ ext \in {".glb", ".gltf"}

\* C17: validate always returns an outcome, Valid without a reason or Invalid
\* with one; a failing stat, read or parse is not thrown to the caller but
\* gives Invalid with the message of the underlying error.
C17_ValidateNeverThrows ==
  Validated =>
    /\ ~h.threw
    /\ h.valid => (h.error = "none" /\ h.detail = "none")
    /\ ~h.valid => h.error \notin {"none", "pending"}
    /\ IoFailureHit => (~h.valid /\ h.detail = failedAt)
    /\ (GltfRead /\ fs[inputPath].doc.syntax = "error")
         => (~h.valid /\ h.detail = "SyntaxError")

C17_Witness ==
  /\ Validated
  /\ failedAt = "statSync"
  /\ IoFailureHit
  /\ ~h.threw
  /\ ~h.valid
  /\ h.error = "Erreur lors de la validation"
  /\ h.detail = "statSync"

----------------------------------------------------------------------------
\* Positions of optimizeModel before fs.unlinkSync(inputPath) has run.
BeforeDelete ==
  {"validate", "mandatory", "resize", "resizeUnlink", "resizeRename",
   "resizeCatch", "webp", "webpUnlink", "webpRename", "webpCatch", "report",
   "backup", "unlinkInput"}

\* C21: from the start of optimizeModel until the delete step of the commit
\* the file at the original path has the bytes of the pre-pipeline original,
\* whatever stages succeeded or failed, and the output of each stage lies at
\* a path other than the original path and other than the stage's input.
C21_OriginalUntouchedBeforeDelete ==
  /\ (pc \in BeforeDelete /\ HadOriginal) => Holds(inputPath, h.fs0[inputPath])
  /\ (pc = "catch" /\ failedAt \in {"mandatory", "backup", "delete"} /\ HadOriginal)
       => Holds(inputPath, h.fs0[inputPath])
  /\ pc = "resize" => \E c \in h.mOut : Holds(outputPath, c)
  /\ pc = "resizeUnlink" =>
       /\ \E c \in h.mOut : Holds(currentPath, c)
       /\ \E c \in h.rOut : Holds(tempPath, c)
  /\ pc = "webpUnlink" =>
       /\ \E c \in h.wIn : Holds(currentPath, c)
       /\ \E c \in h.wOut : Holds(tempPath2, c)

\* The delete step is next, after a failed resize and a successful re-encode.
C21_Witness ==
  /\ pc = "unlinkInput"
  /\ HadOriginal
  /\ h.calls = <<"optimize", "resize", "webp">>
  /\ ~h.rApplied
  /\ h.wApplied
  /\ Holds(inputPath, h.fs0[inputPath])
  /\ \E c \in h.wOut : Holds(currentPath, c)

----------------------------------------------------------------------------
\* C22: for a .gltf asset committed with backupOriginal, scene.bin is copied
\* to scene-original.bin when scene.bin exists and scene-original.bin does
\* not; the copy is attempted only after the swap and only when there is no
\* sibling backup, a failure of the copy leaves the asset swapped, and a
\* sibling backup that exists is never rewritten.
C22_SiblingBackupAfterSwap ==
  /\ ( /\ Returned /\ h.exit = "replaced"
       /\ ext = ".gltf" /\ opts.backupOriginal
       /\ existsSync(h.fs0, binPath) /\ ~existsSync(h.fs0, binBackupPath) )
       => (h.committed /\ Holds(binBackupPath, h.fs0[binPath]))
  /\ "binBackup" \in h.steps =>
       /\ h.committed
       /\ ext = ".gltf" /\ opts.backupOriginal
       /\ ~existsSync(h.fs0, binBackupPath)
  /\ (pc \in {"catch", "returned"} /\ (failedAt = "binBackup" \/ h.exit = "binBackup")) =>
       /\ h.committed
       /\ \E c \in h.final : Holds(inputPath, c)
       /\ ~existsSync(fs, binBackupPath)
  /\ (pc # "idle" /\ existsSync(h.fs0, binBackupPath))
       => Holds(binBackupPath, h.fs0[binBackupPath])

\* The copy of scene.bin failed and optimizeModel returned.
C22_Witness ==
  /\ Returned
  /\ h.exit = "binBackup"
  /\ ext = ".gltf" /\ opts.backupOriginal
  /\ h.committed
  /\ \E c \in h.final : Holds(inputPath, c)
  /\ ~existsSync(fs, binBackupPath)

----------------------------------------------------------------------------
\* Reasons the chunk scan gives.
ChunkReasons ==
  {"Chunk GLB incomplet", "JSON GLB invalide",
   "Chunk JSON GLB invalide (asset.version manquant)",
   "Version GLTF dans GLB non supportee", "GLB sans chunk JSON"}

\* The reason of the first header rule that content violates, in the order
\* size, magic, version, declared length; "none" if it violates none.
FirstHeaderViolation(content) ==
  IF Len(content) = 0 THEN "Fichier vide"
  ELSE IF Len(content) < 12 THEN "Fichier GLB trop petit"
  ELSE IF Slice(content, 0, 4) # MagicGlTF THEN "Magic number GLB invalide"
  ELSE IF readUInt32LE(content, 4) # 2 THEN "Version GLB non supportee"
  ELSE IF readUInt32LE(content, 8) # Len(content) THEN "Longueur GLB declaree incorrecte"
  ELSE "none"

\* C23: for a .glb file validate reports the first violated header rule in
\* the order size, magic, version, declared length, and a chunk-level reason
\* only when the four header rules hold.
C23_FirstViolatedRuleReported ==
  GlbRead =>
    /\ FirstHeaderViolation(fs[inputPath].bytes) # "none"
         => (~h.valid /\ h.error = FirstHeaderViolation(fs[inputPath].bytes))
    /\ h.error \in ChunkReasons => HeaderCorrect(fs[inputPath].bytes)
    /\ FirstHeaderViolation(fs[inputPath].bytes) = "none"
         => (h.valid \/ h.error \in ChunkReasons)

\* A file with a wrong version, a wrong declared length and a JSON-less body.
C23_Witness ==
  /\ GlbRead
  /\ Len(fs[inputPath].bytes) >= 12
  /\ Slice(fs[inputPath].bytes, 0, 4) = MagicGlTF
  /\ readUInt32LE(fs[inputPath].bytes, 4) # 2
  /\ readUInt32LE(fs[inputPath].bytes, 8) # Len(fs[inputPath].bytes)
  /\ ~h.valid
  /\ h.error = "Version GLB non supportee"

----------------------------------------------------------------------------
\* A stage of this invocation failed: the mandatory one, or an optional one
\* whose output did not become the working copy.
StageFailed ==
  \/ h.exit = "mandatory"
  \/ "resize" \in Called /\ ~h.rApplied
  \/ "webp" \in Called /\ ~h.wApplied

\* C24: a file that was at the working path or at one of its -temp / -temp2
\* variants before the invocation is still there, with the same bytes, when
\* an invocation in which a stage failed returns.
C24_PreexistingFilesKept ==
  (Returned /\ StageFailed) =>
     \A p \in TempPaths : existsSync(h.fs0, p) => Holds(p, h.fs0[p])

----------------------------------------------------------------------------
\* The CLI run several times in non-interactive mode over one models
\* directory.  Under SpecBatch paths are file names [base, ext] as under
\* SpecPair, runs counts the runs of the CLI, pc is "idle" between two runs
\* and "loop" inside main's forEach, and h holds the directory before the
\* first run and the files of selectedFiles not yet processed.  Every fs
\* call of optimizeModel succeeds; its transform succeeds or fails.

\* Runs of the CLI.
MaxCliRuns == 2

\* findGltfFiles: every file of the directory ending in .gltf or .glb.
findGltfFiles(f) == { p \in DOMAIN f : p.ext \in {".gltf", ".glb"} }

\* The directory after optimizeModel(i) has committed a working copy c:
\* backup if there is none, step 1 output at outputPath, delete, rename.
OptimizeCommitted(f, i, c) ==
  LET backed == IF ~existsSync(f, backupPathOf(i))
                THEN copyFileSync(f, i, backupPathOf(i)) ELSE f
  IN  renameSync(unlinkSync(WriteFile(backed, outputPathOf(i), c), i),
                 outputPathOf(i), i)

BatchDirs ==
  { PairDir(as, {}) :
      as \in (SUBSET {File(<<"a">>, ".glb"), File(<<"b">>, ".gltf")}) \ {{}} }

InitBatch ==
  /\ fs \in BatchDirs
  /\ pc = "idle"
  /\ h = [fs0 |-> fs, pending |-> {}]
  /\ runs = 0
  /\ successCount = 0
  /\ errorCount = 0
  /\ ext = ".glb"
  /\ opts = NoOpts
  /\ originalSize = 0
  /\ optimizedSize = 0
  /\ reduction = NoReduction
  /\ applied = {}
  /\ failedAt = "none"

BatchFrame ==
  UNCHANGED <<ext, opts, originalSize, optimizedSize, reduction, applied, failedAt>>

\* main: gltfFiles = findGltfFiles(MODELS_DIR); showMenu returns them all.
BatchStart ==
  /\ pc = "idle"
  /\ runs < MaxCliRuns
  /\ runs' = runs + 1
  /\ h' = [h EXCEPT !.pending = findGltfFiles(fs)]
  /\ pc' = "loop"
  /\ successCount' = 0
  /\ errorCount' = 0
  /\ UNCHANGED fs
  /\ BatchFrame

\* One iteration of selectedFiles.forEach: optimizeModel(file, {...,
\* backupOriginal: true}), which commits or fails in step 1 and returns.
BatchOptimize ==
  /\ pc = "loop"
  /\ \E file \in h.pending :
       /\ h' = [h EXCEPT !.pending = @ \ {file}]
       /\ \/ /\ validateGltfModel(fs, file).valid
             /\ \E s \in OutSizes(statSize(fs, file)) :
                  fs' = OptimizeCommitted(fs, file, Content(runs, "webp", s, TRUE))
          \/ fs' = fs
  /\ successCount' = CountOutcome(FALSE)[1]
  /\ errorCount' = CountOutcome(FALSE)[2]
  /\ UNCHANGED <<pc, runs>>
  /\ BatchFrame

\* The forEach is over: the summary is printed and the process ends.
BatchEnd ==
  /\ pc = "loop"
  /\ h.pending = {}
  /\ pc' = "idle"
  /\ UNCHANGED <<fs, h, runs, successCount, errorCount>>
  /\ BatchFrame

NextBatch == BatchStart \/ BatchOptimize \/ BatchEnd

SpecBatch == InitBatch /\ [][NextBatch]_vars

\* C25: after any number of runs of the CLI the backup <base>-original<ext>
\* of an asset of the directory holds the bytes the asset had before the
\* first run.
C25_FirstBackupKeepsOriginalBytes ==
  \A i \in DOMAIN h.fs0 :
    existsSync(fs, backupPathOf(i)) => fs[backupPathOf(i)] = h.fs0[i]

----------------------------------------------------------------------------
\* The call has found an existing, non-empty file and no fs call failed.
FileRead ==
  /\ Validated
  /\ failedAt = "none"
  /\ existsSync(fs, inputPath)
  /\ fs[inputPath].size > 0

\* Reasons of the header rules of a .glb file.
HeaderReasons ==
  {"Fichier GLB trop petit", "Magic number GLB invalide",
   "Version GLB non supportee", "Longueur GLB declaree incorrecte"}

\* Reasons of the rules of a .gltf file.
GltfReasons ==
  {"JSON invalide", "Structure GLTF invalide (asset.version manquant)",
   "Version GLTF non supportee", "Fichier binaire manquant"}

\* C26: the .gltf rules are applied to paths ending in .gltf and only to
\* them, the .glb rules to paths ending in .glb and only to them, matching
\* case; an existing non-empty file with another ending is Valid whatever
\* its content, and optimizeModel goes on to the pipeline.
C26_RulesChosenByEnding ==
  /\ (FileRead /\ ext = ".gltf") =>
       /\ h.valid \/ h.error \in GltfReasons
       /\ (fs[inputPath].doc.syntax # "ok" \/ fs[inputPath].doc.version # "2.0") => ~h.valid
  /\ (FileRead /\ ext = ".glb") =>
       /\ h.valid \/ h.error \in HeaderReasons \cup ChunkReasons
       /\ FirstHeaderViolation(fs[inputPath].bytes) # "none" => ~h.valid
  /\ (FileRead /\ ext \notin {".gltf", ".glb"}) =>
       /\ h = Valid
       /\ AfterValidation(h) = "mandatory"

\* A one-byte file named .GLB has been accepted.
C26_Witness ==
  /\ FileRead
  /\ ext = ".GLB"
  /\ FirstHeaderViolation(fs[inputPath].bytes) = "Fichier GLB trop petit"
  /\ h = Valid

----------------------------------------------------------------------------
\* The chunk loop of validateGltfModel, one iteration per step.  Under
\* SpecScan fs holds a .glb file that passed the header checks, pc is "scan"
\* inside the loop and "scanned" after it, and h holds the loop's variables
\* offset and hasJSONChunk, the number of completed iterations and the
\* outcome of the scan.

\* Mutation: the cursor advances by the payload length only.
NextOffsetPayloadOnly(offset, chunkLength) == offset + chunkLength

\* offset += 8 + chunkLength
NextOffset(offset, chunkLength) == offset + 8 + chunkLength

ScanFiles == { GlbContent(bytes) : bytes \in { b \in GlbFiles : HeaderCorrect(b) } }

InitScan ==
  /\ \E c \in ScanFiles : fs = [q \in {inputPath} |-> c]
  /\ pc = "scan"
  /\ h = [offset |-> 12, hasJSONChunk |-> FALSE, iter |-> 0, outcome |-> NoOutcome]
  /\ ext = ".glb"
  /\ failedAt = "none"
  /\ opts = NoOpts
  /\ originalSize = 0
  /\ optimizedSize = 0
  /\ reduction = NoReduction
  /\ applied = {}
  /\ runs = 0
  /\ successCount = 0
  /\ errorCount = 0

ScanFrame ==
  UNCHANGED <<fs, ext, opts, originalSize, optimizedSize, reduction, applied,
              failedAt, runs, successCount, errorCount>>

\* One pass through the body of while (offset < content.length).
ScanStep ==
  /\ pc = "scan"
  /\ h.offset < Len(fs[inputPath].bytes)
  /\ LET content == fs[inputPath].bytes
         chunkLength == readUInt32LE(content, h.offset)
         chunkType == Slice(content, h.offset + 4, h.offset + 8)
         json == JsonChunkCheck(Slice(content, h.offset + 8, h.offset + 8 + chunkLength))
     IN  IF h.offset + 8 > Len(content)
         THEN /\ h' = [h EXCEPT !.outcome = Invalid("Chunk GLB incomplet", "none")]
              /\ pc' = "scanned"
         ELSE IF chunkType = TagJSON /\ ~json.valid
         THEN /\ h' = [h EXCEPT !.outcome = json, !.hasJSONChunk = TRUE]
              /\ pc' = "scanned"
         ELSE /\ h' = [h EXCEPT !.offset = NextOffset(h.offset, chunkLength),
                                !.hasJSONChunk = @ \/ chunkType = TagJSON,
                                !.iter = @ + 1]
              /\ pc' = "scan"
  /\ ScanFrame

\* The loop condition is false: the check after the loop.
ScanExit ==
  /\ pc = "scan"
  /\ ~(h.offset < Len(fs[inputPath].bytes))
  /\ h' = [h EXCEPT !.outcome = ScanEnd(h.hasJSONChunk)]
  /\ pc' = "scanned"
  /\ ScanFrame

NextScan == ScanStep \/ ScanExit

SpecScan == InitScan /\ [][NextScan]_vars

\* C27: the chunk scan terminates on every .glb file: the cursor starts at
\* 12 and has grown by at least 8 per completed iteration, each iteration
\* started before the end of the file, so the iterations are fewer than
\* (length - 12) / 8 + 1; the loop ends with an Invalid outcome or with the
\* cursor at or past the file length, and gives what validate returns.
C27_ScanTerminates ==
  pc \in {"scan", "scanned"} =>
    /\ h.offset >= 12 + 8 * h.iter
    /\ h.iter >= 1 => 12 + 8 * (h.iter - 1) < Len(fs[inputPath].bytes)
    /\ pc = "scanned" =>
         /\ \/ ~h.outcome.valid /\ h.outcome.error \in ChunkReasons
            \/ h.offset >= Len(fs[inputPath].bytes)
         /\ h.outcome = ScanChunks(fs[inputPath].bytes, 12, FALSE)

\* The scan is over after a chunk of declared length 0 and a chunk whose
\* declared length passes the end of the file.
C27_Witness ==
  /\ pc = "scanned"
  /\ h.iter = 2
  /\ readUInt32LE(fs[inputPath].bytes, 12) = 0
  /\ h.offset > Len(fs[inputPath].bytes)

====
